---- MODULE Spec2Model ----
(***************************************************************************)
(* Model of the deet debugger (proj-1/deet): the command loop of           *)
(* Debugger::run, the breakpoint table, and Inferior's ptrace operations   *)
(* against a small traced program.                                         *)
(***************************************************************************)
EXTENDS Integers, Sequences, FiniteSets, TLC

(***************************************************************************)
(* Bounds of the model.                                                    *)
(***************************************************************************)
\* number of processes the session may spawn (run commands that reach spawn)
MaxRuns == 2
\* number of entries the breakpoint table may grow to
MaxBreaks == 2
\* number of calls of write_byte made on their own
MaxWrites == 2
\* length of the input vector of parallel_map, and its num_threads
MaxLen == 2
MaxThreads == 2
\* elements by which the capacity Vec::with_capacity gives may exceed the
\* capacity asked for
MaxSpare == 1
\* number of nodes a LinkedList may grow to
MaxNodes == 4
\* number of reads from the client on one balancebeam connection
MaxReqs == 3

(***************************************************************************)
(* Values.                                                                 *)
(***************************************************************************)
\* Option::None of HashMap<usize, Option<u8>> values and of Option<Inferior>
None == -1
\* the trap opcode written by the debugger (int3)
TrapOpcode == 204
\* size_of::<usize>() on x86_64
WordSize == 8

Pids == 1..MaxRuns

(***************************************************************************)
(* The traced program: one-byte instructions at Entry..ExitAddr.           *)
(* Execution starts at Entry, falls through to the next address, may jump  *)
(* back from LoopFrom to LoopTo, executes a trap that is part of the       *)
(* program itself at NativeTrap, and exits with status 0 at ExitAddr.      *)
(* Words at MappedBases are mapped; every other address is unmapped.       *)
(* The words at StackBase and StackBase + 8 are the stack frame of the     *)
(* function called from main: the caller's frame base and the return       *)
(* address ReturnAddr.                                                     *)
(***************************************************************************)
MappedBases == {8, 16, 24, 32}
StackBase == 24
ReturnAddr == 17
Entry == 13
LoopFrom == 16
LoopTo == 14
NativeTrap == 17
ExitAddr == 18
UnmappedAddr == 40

\* byte of the un-instrumented program image at address a
ImageByte(a) ==
    IF a = NativeTrap THEN TrapOpcode
    ELSE IF a = StackBase + 8 THEN ReturnAddr
    ELSE IF a >= StackBase THEN 0
    ELSE 80 + (a % 16)

Image == [b \in MappedBases |-> [i \in 1..WordSize |-> ImageByte(b + i - 1)]]

\* control-flow successors of the instruction at p
Succ(p) == IF p = LoopFrom THEN {p + 1, LoopTo} ELSE {p + 1}

(***************************************************************************)
(* 64-bit words as 8 bytes, least significant first, with the bit          *)
(* operations write_byte uses.                                             *)
(***************************************************************************)
RECURSIVE BitAndN(_, _, _)
BitAndN(x, y, n) ==
    IF n = 0 THEN 0
    ELSE (x % 2) * (y % 2) + 2 * BitAndN(x \div 2, y \div 2, n - 1)

RECURSIVE BitOrN(_, _, _)
BitOrN(x, y, n) ==
    IF n = 0 THEN 0
    ELSE (IF (x % 2) + (y % 2) > 0 THEN 1 ELSE 0)
         + 2 * BitOrN(x \div 2, y \div 2, n - 1)

\* v as u64
WordOf(v) == [i \in 1..WordSize |-> IF i = 1 THEN v % 256 ELSE 0]
\* w >> bits, w << bits for bits a multiple of 8
WShr(w, bits) ==
    [i \in 1..WordSize |->
        IF i + (bits \div 8) <= WordSize THEN w[i + (bits \div 8)] ELSE 0]
WShl(w, bits) ==
    [i \in 1..WordSize |-> IF i - (bits \div 8) >= 1 THEN w[i - (bits \div 8)] ELSE 0]
WAnd(w1, w2) == [i \in 1..WordSize |-> BitAndN(w1[i], w2[i], 8)]
WOr(w1, w2) == [i \in 1..WordSize |-> BitOrN(w1[i], w2[i], 8)]
WNot(w) == [i \in 1..WordSize |-> 255 - w[i]]
\* w as u8
LowByte(w) == w[1]

\* addr & (-(size_of::<usize>() as isize) as usize): clears the low 3 bits
align_addr_to_word(addr) == addr - (addr % WordSize)

\* the byte at address a of memory image mem (a mapped)
ByteAt(mem, a) == mem[align_addr_to_word(a)][(a % WordSize) + 1]

(***************************************************************************)
(* A process: st is "unborn", "stopped" (alive, in a ptrace stop) or       *)
(* "dead" (exited or killed, and reaped); rip and rbp are its registers,   *)
(* rbp holding the frame at StackBase.  Two fields are history: prearm     *)
(* holds, for every address at which the debugger installed the trap byte  *)
(* in this process, the byte that was there before the first installation; *)
(* hit is the address of the trap byte whose execution caused the latest   *)
(* stop, or None when the latest stop had another cause.                   *)
(***************************************************************************)
NoMap == [a \in {} |-> 0]
Unborn == [st |-> "unborn", mem |-> Image, rip |-> 0, rbp |-> 0,
           prearm |-> NoMap, hit |-> -1]
Dead == [st |-> "dead", mem |-> Image, rip |-> 0, rbp |-> 0,
         prearm |-> NoMap, hit |-> -1]
Fresh == [st |-> "stopped", mem |-> Image, rip |-> Entry, rbp |-> StackBase,
          prearm |-> NoMap, hit |-> -1]

\* ptrace calls fail with ESRCH unless the tracee exists and is stopped
Traceable(p) == p.st = "stopped"

\* ptrace::read / ptrace::write succeed on a mapped word of a stopped tracee
CanPeek(p, aligned) == Traceable(p) /\ aligned \in DOMAIN p.mem

(***************************************************************************)
(* Stop classification (enum Status) and the log of controller operations. *)
(***************************************************************************)
NoStatus == [kind |-> "none", sig |-> "", val |-> -1]
Stopped(sig, rip) == [kind |-> "Stopped", sig |-> sig, val |-> rip]
Exited(code) == [kind |-> "Exited", sig |-> "", val |-> code]
Signaled(sig) == [kind |-> "Signaled", sig |-> sig, val |-> -1]

\* One operation issued by function by on process pid: a is its address
\* argument (the aligned word of a peek or poke, the new instruction pointer
\* of setregs), w the word a poke writes; mem, rip and prearm are those of
\* pid and live is the set of live processes of the session at the moment
\* the operation is issued (for waitpid and the getregs of wait: at the
\* moment it returns).
LogOp(by, op, pid, a, w, p, others) ==
    [by |-> by, op |-> op, pid |-> pid, a |-> a, w |-> w, mem |-> p.mem,
     rip |-> p.rip, prearm |-> p.prearm,
     live |-> others \cup (IF p.st = "stopped" THEN {pid} ELSE {})]

\* One line of output: m the kind of message, n its number argument, a its
\* address argument, t its text argument (a sequence of characters).
Msg(m, n, a) == [m |-> m, n |-> n, a |-> a, t |-> <<>>]
MsgText(m, t) == [m |-> m, n |-> None, a |-> None, t |-> t]

\* What the traced process does when it is let run: it stops with signal sig
\* at instruction pointer rip (at: the trap byte it executed, or None), it
\* exits with a status code, or it is killed by signal sig.
EvStop(sig, rip, at) == [kind |-> "Stopped", sig |-> sig, code |-> -1, rip |-> rip, at |-> at]
EvExit(code) == [kind |-> "Exited", sig |-> "", code |-> code, rip |-> 0, at |-> -1]
EvKill(sig) == [kind |-> "Signaled", sig |-> sig, code |-> -1, rip |-> 0, at |-> -1]

(***************************************************************************)
(* Symbol resolver (dwarf_data): addresses with debug information.         *)
(***************************************************************************)
SymAddrs == 14..ExitAddr
get_line_from_addr(a) == IF a \in SymAddrs THEN a - 4 ELSE None
\* the instructions at AddAddrs belong to function add, the others to main
AddAddrs == {15, 16}
get_function_from_addr(a) ==
    IF a \notin SymAddrs THEN "None" ELSE IF a \in AddAddrs THEN "add" ELSE "main"
\* address of the first instruction of source line n
get_addr_for_line(n) == IF n + 4 \in SymAddrs THEN n + 4 ELSE None
\* address of the function named by the characters name
get_addr_for_function(name) ==
    IF name = << "m", "a", "i", "n" >> THEN 14
    ELSE IF name = << "a", "d", "d" >> THEN 15
    ELSE None

(***************************************************************************)
(* Break requests: strings as sequences of characters.                     *)
(***************************************************************************)
Tokens ==
    { << "*", "0", "x", "1", "2" >>,      \* ExitAddr
      << "*", "0", "x", "2", "8" >>,      \* UnmappedAddr
      << "*", "0", "x", "z", "z" >>,
      << "0", "X", "B" >>,                \* 11
      << "f", "f" >>,
      << "m", "a", "i", "n" >>,
      << "a", "d", "d" >>,
      << "n", "o", "s", "u", "c", "h", "f", "u", "n", "c" >> }

StartsWith(s, pre) == Len(s) >= Len(pre) /\ SubSeq(s, 1, Len(pre)) = pre

\* char::to_digit(16)
HexDigit(c) ==
    CASE c = "0" -> 0 [] c = "1" -> 1 [] c = "2" -> 2 [] c = "3" -> 3
      [] c = "4" -> 4 [] c = "5" -> 5 [] c = "6" -> 6 [] c = "7" -> 7
      [] c = "8" -> 8 [] c = "9" -> 9
      [] c \in {"a", "A"} -> 10 [] c \in {"b", "B"} -> 11
      [] c \in {"c", "C"} -> 12 [] c \in {"d", "D"} -> 13
      [] c \in {"e", "E"} -> 14 [] c \in {"f", "F"} -> 15
      [] OTHER -> None

\* usize::from_str_radix(s, 16).ok(): None for the empty string and for any
\* character that is not a hexadecimal digit (one leading "+" is accepted)
RECURSIVE FromHexDigits(_, _)
FromHexDigits(s, acc) ==
    IF s = <<>> THEN acc
    ELSE IF HexDigit(Head(s)) = None THEN None
    ELSE FromHexDigits(Tail(s), 16 * acc + HexDigit(Head(s)))

from_str_radix_16(s) ==
    LET digits == IF s /= <<>> /\ Head(s) = "+" THEN Tail(s) ELSE s
    IN IF digits = <<>> THEN None ELSE FromHexDigits(digits, 0)

\* Debugger::parse_address, debugger.rs:266-273
parse_address(addr) ==
    IF Len(addr) >= 2 /\ addr[1] = "0" /\ addr[2] \in {"x", "X"}
    THEN from_str_radix_16(SubSeq(addr, 3, Len(addr)))
    ELSE from_str_radix_16(addr)

\* "{}" of a usize: its decimal digits
RECURSIVE Display(_)
Display(n) ==
    LET d == << "0", "1", "2", "3", "4", "5", "6", "7", "8", "9" >>[(n % 10) + 1]
    IN IF n < 10 THEN << d >> ELSE Append(Display(n \div 10), d)

(***************************************************************************)
(* The traced process as seen through waitpid: what a single step and a    *)
(* free resume can end in.                                                 *)
(***************************************************************************)
\* one instruction at p.rip: a trap byte stops one past it, the exit point
\* exits, anything else stops with the step trap at a successor; the
\* instruction may also fault, and the process may be killed from outside
StepEvents(p) ==
    (IF ByteAt(p.mem, p.rip) = TrapOpcode
     THEN {EvStop("SIGTRAP", p.rip + 1, p.rip)}
     ELSE IF p.rip = ExitAddr THEN {EvExit(0)}
     ELSE {EvStop("SIGTRAP", q, None) : q \in Succ(p.rip)})
    \cup {EvStop("SIGSEGV", p.rip, None), EvKill("SIGKILL")}

RECURSIVE RunFrom(_, _, _)
RunFrom(mem, q, seen) ==
    IF q \in seen THEN {}
    ELSE IF ByteAt(mem, q) = TrapOpcode THEN {EvStop("SIGTRAP", q + 1, q)}
    ELSE IF q = ExitAddr THEN {EvExit(0)}
    ELSE {EvStop("SIGSEGV", q, None)}
         \cup UNION {RunFrom(mem, s, seen \cup {q}) : s \in Succ(q)}

\* free run from p.rip until the next stop or the end of the process
ContEvents(p) == RunFrom(p.mem, p.rip, {}) \cup {EvKill("SIGKILL")}

\* the first event of a spawned child: the exec trap, another stop, or its
\* end; SpawnFail: no child was created
SpawnFail == [kind |-> "fail", sig |-> "", code |-> -1, rip |-> 0, at |-> -1]
SpawnEvents ==
    {SpawnFail, EvStop("SIGTRAP", Entry, None), EvStop("SIGSTOP", Entry, None),
     EvExit(1), EvKill("SIGKILL")}

(***************************************************************************)
(* Inferior                                                                *)
(***************************************************************************)
\* wait that reports the address before the instruction pointer
wait_RipMinusOne(p, pid, ev, others) ==
    IF ev.kind = "Stopped"
    THEN LET q == [p EXCEPT !.rip = ev.rip, !.hit = ev.at]
         IN [status |-> Stopped(ev.sig, q.rip - 1), p |-> q,
             ops |-> << LogOp("wait", "waitpid", pid, -1, <<>>, q, others),
                        LogOp("wait", "getregs", pid, -1, <<>>, q, others) >>]
    ELSE [status |-> IF ev.kind = "Exited" THEN Exited(ev.code) ELSE Signaled(ev.sig),
          p |-> Dead,
          ops |-> << LogOp("wait", "waitpid", pid, -1, <<>>, Dead, others) >>]

\* Inferior::wait after the process produced event ev: waitpid, and getregs
\* for the instruction pointer when the process stopped
wait(p, pid, ev, others) ==
    IF ev.kind = "Stopped"
    THEN LET q == [p EXCEPT !.rip = ev.rip, !.hit = ev.at]
         IN [status |-> Stopped(ev.sig, q.rip), p |-> q,
             ops |-> << LogOp("wait", "waitpid", pid, -1, <<>>, q, others),
                        LogOp("wait", "getregs", pid, -1, <<>>, q, others) >>]
    ELSE [status |-> IF ev.kind = "Exited" THEN Exited(ev.code) ELSE Signaled(ev.sig),
          p |-> Dead,
          ops |-> << LogOp("wait", "waitpid", pid, -1, <<>>, Dead, others) >>]

\* write_byte whose mask is not shifted to the byte offset: word & !0xff
write_byte_MaskLow(p, pid, addr, val, others) ==
    LET aligned_addr == align_addr_to_word(addr)
        byte_offset == addr - aligned_addr
        peek == LogOp("write_byte", "peek", pid, aligned_addr, <<>>, p, others)
    IN IF ~CanPeek(p, aligned_addr)
       THEN [ok |-> FALSE, orig |-> None, p |-> p, ops |-> <<peek>>]
       ELSE LET word == p.mem[aligned_addr]
                orig_byte == WAnd(WShr(word, 8 * byte_offset), WordOf(255))
                masked_word == WAnd(word, WNot(WordOf(255)))
                updated_word == WOr(masked_word, WShl(WordOf(val), 8 * byte_offset))
                poke == LogOp("write_byte", "poke", pid, aligned_addr, updated_word,
                              p, others)
            IN [ok |-> TRUE, orig |-> LowByte(orig_byte),
                p |-> [p EXCEPT !.mem[aligned_addr] = updated_word],
                ops |-> <<peek, poke>>]

\* write_byte that extracts the returned byte from the updated word
write_byte_ReturnsNew(p, pid, addr, val, others) ==
    LET aligned_addr == align_addr_to_word(addr)
        byte_offset == addr - aligned_addr
        peek == LogOp("write_byte", "peek", pid, aligned_addr, <<>>, p, others)
    IN IF ~CanPeek(p, aligned_addr)
       THEN [ok |-> FALSE, orig |-> None, p |-> p, ops |-> <<peek>>]
       ELSE LET word == p.mem[aligned_addr]
                masked_word == WAnd(word, WNot(WShl(WordOf(255), 8 * byte_offset)))
                updated_word == WOr(masked_word, WShl(WordOf(val), 8 * byte_offset))
                orig_byte == WAnd(WShr(updated_word, 8 * byte_offset), WordOf(255))
                poke == LogOp("write_byte", "poke", pid, aligned_addr, updated_word,
                              p, others)
            IN [ok |-> TRUE, orig |-> LowByte(orig_byte),
                p |-> [p EXCEPT !.mem[aligned_addr] = updated_word],
                ops |-> <<peek, poke>>]

\* Inferior::write_byte: read-modify-write of the aligned word
write_byte(p, pid, addr, val, others) ==
    LET aligned_addr == align_addr_to_word(addr)
        byte_offset == addr - aligned_addr
        peek == LogOp("write_byte", "peek", pid, aligned_addr, <<>>, p, others)
    IN IF ~CanPeek(p, aligned_addr)
       THEN [ok |-> FALSE, orig |-> None, p |-> p, ops |-> <<peek>>]
       ELSE LET word == p.mem[aligned_addr]
                orig_byte == WAnd(WShr(word, 8 * byte_offset), WordOf(255))
                masked_word == WAnd(word, WNot(WShl(WordOf(255), 8 * byte_offset)))
                updated_word == WOr(masked_word, WShl(WordOf(val), 8 * byte_offset))
                poke == LogOp("write_byte", "poke", pid, aligned_addr, updated_word,
                              p, others)
            IN [ok |-> TRUE, orig |-> LowByte(orig_byte),
                p |-> [p EXCEPT !.mem[aligned_addr] = updated_word],
                ops |-> <<peek, poke>>]

\* write_byte(addr, 0xcc), remembering in prearm the byte it replaced the
\* first time the trap byte is installed at addr in this process
Arm(p, pid, addr, others) ==
    LET r == write_byte(p, pid, addr, TrapOpcode, others)
    IN IF r.ok /\ addr \notin DOMAIN r.p.prearm
       THEN [r EXCEPT !.p.prearm = (addr :> r.orig) @@ r.p.prearm]
       ELSE r

\* result of continue_exec: res is "ok" (Ok(status)), "err" (Err) or "panic"
Result(res, status, p, log, msgs) ==
    [res |-> res, status |-> status, p |-> p, ops |-> log, out |-> msgs]

\* inferior.rs:118-119: ptrace::cont, then wait
FreeResume(p, pid, others, log, msgs) ==
    LET cont == LogOp("continue_exec", "cont", pid, -1, <<>>, p, others)
    IN IF ~Traceable(p)
       THEN {Result("err", NoStatus, p, log \o <<cont>>, msgs)}
       ELSE {LET w == wait(p, pid, ev, others)
             IN Result("ok", w.status, w.p, log \o <<cont>> \o w.ops, msgs)
             : ev \in ContEvents(p)}

\* AfterStep without the write_byte(addr, 0xcc) of inferior.rs:116
AfterStep_NoRearm(p, pid, addr, others, log, msgs, ev) ==
    LET w == wait(p, pid, ev, others)
    IN CASE w.status.kind = "Stopped" /\ w.status.sig /= "SIGTRAP" ->
              {Result("panic", NoStatus, w.p, log \o w.ops, msgs)}
         [] w.status.kind = "Stopped" /\ w.status.sig = "SIGTRAP" ->
              FreeResume(w.p, pid, others, log \o w.ops, msgs)
         [] w.status.kind = "Exited" ->
              {Result("ok", w.status, w.p, log \o w.ops,
                      Append(msgs, Msg("Child exited", w.status.val, None)))}
         [] OTHER ->
              {Result("ok", w.status, w.p, log \o w.ops, msgs)}

\* AfterStep that re-patches before it looks at the classification of the step
AfterStep_RearmFirst(p, pid, addr, others, log, msgs, ev) ==
    LET w == wait(p, pid, ev, others)
        r == Arm(w.p, pid, addr, others)
    IN IF ~r.ok
       THEN {Result("err", NoStatus, r.p, log \o w.ops \o r.ops, msgs)}
       ELSE IF w.status.kind = "Stopped" /\ w.status.sig /= "SIGTRAP"
       THEN {Result("panic", NoStatus, r.p, log \o w.ops \o r.ops, msgs)}
       ELSE FreeResume(r.p, pid, others, log \o w.ops \o r.ops, msgs)

\* inferior.rs:104-117: wait for the step, then re-patch and resume
AfterStep(p, pid, addr, others, log, msgs, ev) ==
    LET w == wait(p, pid, ev, others)
    IN CASE w.status.kind = "Stopped" /\ w.status.sig /= "SIGTRAP" ->
              \* assert_eq!(signal, Signal::SIGTRAP)
              {Result("panic", NoStatus, w.p, log \o w.ops, msgs)}
         [] w.status.kind = "Stopped" /\ w.status.sig = "SIGTRAP" ->
              LET r == Arm(w.p, pid, addr, others)
              IN IF ~r.ok
                 THEN {Result("err", NoStatus, r.p, log \o w.ops \o r.ops, msgs)}
                 ELSE FreeResume(r.p, pid, others, log \o w.ops \o r.ops, msgs)
         [] w.status.kind = "Exited" ->
              {Result("ok", w.status, w.p, log \o w.ops,
                      Append(msgs, Msg("Child exited", w.status.val, None)))}
         [] OTHER ->
              {Result("ok", w.status, w.p, log \o w.ops, msgs)}

\* StepOver that rewinds the instruction pointer before it restores the byte
StepOver_RewindFirst(p, pid, bps, addr, others, log) ==
    IF bps[addr] = None
    THEN {Result("panic", NoStatus, p, log, <<>>)}
    ELSE LET q == [p EXCEPT !.rip = addr]
             setregs == LogOp("continue_exec", "setregs", pid, addr, <<>>, p, others)
             r == write_byte(q, pid, addr, bps[addr], others)
             step == LogOp("continue_exec", "step", pid, -1, <<>>, r.p, others)
             msgs == << Msg("Breakpoint at", get_line_from_addr(addr), None) >>
         IN IF ~r.ok
            THEN {Result("err", NoStatus, r.p, log \o <<setregs>> \o r.ops, <<>>)}
            ELSE UNION {AfterStep(r.p, pid, addr, others,
                                  log \o <<setregs>> \o r.ops \o <<step>>, msgs, ev)
                        : ev \in StepEvents(r.p)}

\* inferior.rs:95-103: restore the saved byte, rewind, single-step
StepOver(p, pid, bps, addr, others, log) ==
    IF bps[addr] = None
    THEN \* expect("breakpoint should been injected")
         {Result("panic", NoStatus, p, log, <<>>)}
    ELSE LET r == write_byte(p, pid, addr, bps[addr], others)
         IN IF ~r.ok
            THEN {Result("err", NoStatus, r.p, log \o r.ops, <<>>)}
            ELSE IF get_function_from_addr(addr) = "None"
                    \/ get_line_from_addr(addr) = None
            THEN \* unwrap of the symbol lookups
                 {Result("panic", NoStatus, r.p, log \o r.ops, <<>>)}
            ELSE LET q == [r.p EXCEPT !.rip = addr]
                     setregs == LogOp("continue_exec", "setregs", pid, addr, <<>>,
                                      r.p, others)
                     step == LogOp("continue_exec", "step", pid, -1, <<>>, q, others)
                     msgs == << Msg("Breakpoint at", get_line_from_addr(addr), None) >>
                 IN UNION {AfterStep(q, pid, addr, others,
                                     log \o r.ops \o <<setregs, step>>, msgs, ev)
                           : ev \in StepEvents(q)}

\* Inferior::continue_exec
continue_exec(p, pid, bps, others) ==
    LET getregs == LogOp("continue_exec", "getregs", pid, -1, <<>>, p, others)
    IN IF ~Traceable(p)
       THEN {Result("err", NoStatus, p, <<getregs>>, <<>>)}
       ELSE LET addr == p.rip - 1
            IN IF addr \in DOMAIN bps
               THEN StepOver(p, pid, bps, addr, others, <<getregs>>)
               ELSE FreeResume(p, pid, others, <<getregs>>, <<>>)

\* ptrace::read(..) as usize, for words whose value is below 2^24
WordValue(w) == w[1] + 256 * w[2] + 65536 * w[3]

\* "{} ({})": one frame of a backtrace, function name and line
Frame(name, line) == [m |-> "frame", n |-> line, a |-> None, t |-> << name >>]

\* result of print_backtrace: res is "ok" (Ok(())), "err" (Err) or "panic"
BtResult(res, log, msgs) == [res |-> res, ops |-> log, out |-> msgs]

\* inferior.rs:130-140: the loop of print_backtrace
RECURSIVE Frames(_, _, _, _, _, _, _)
Frames(p, pid, others, instruction_ptr, base_ptr, log, msgs) ==
    IF get_function_from_addr(instruction_ptr) = "None"
       \/ get_line_from_addr(instruction_ptr) = None
    THEN \* unwrap of the symbol lookups
         {BtResult("panic", log, msgs)}
    ELSE LET function_name == get_function_from_addr(instruction_ptr)
             printed == Append(msgs, Frame(function_name,
                                           get_line_from_addr(instruction_ptr)))
             peek1 == LogOp("print_backtrace", "peek", pid, base_ptr + 8, <<>>, p, others)
             peek2 == LogOp("print_backtrace", "peek", pid, base_ptr, <<>>, p, others)
         IN IF function_name = "main"
            THEN {BtResult("ok", log, printed)}
            ELSE IF ~CanPeek(p, base_ptr + 8)
            THEN {BtResult("err", Append(log, peek1), printed)}
            ELSE IF ~CanPeek(p, base_ptr)
            THEN {BtResult("err", log \o <<peek1, peek2>>, printed)}
            ELSE Frames(p, pid, others, WordValue(p.mem[base_ptr + 8]),
                        WordValue(p.mem[base_ptr]), log \o <<peek1, peek2>>, printed)

\* print_backtrace that reads the frame at the base pointer before the walk
\* tests whether the function is main
print_backtrace_ReadFirst(p, pid, others) ==
    LET getregs == LogOp("print_backtrace", "getregs", pid, -1, <<>>, p, others)
        peek1 == LogOp("print_backtrace", "peek", pid, p.rbp + 8, <<>>, p, others)
        peek2 == LogOp("print_backtrace", "peek", pid, p.rbp, <<>>, p, others)
    IN IF ~Traceable(p)
       THEN {BtResult("err", <<getregs>>, <<>>)}
       ELSE IF ~CanPeek(p, p.rbp + 8)
       THEN {BtResult("err", <<getregs, getregs, peek1>>, <<>>)}
       ELSE Frames(p, pid, others, p.rip, p.rbp,
                   <<getregs, getregs, peek1, peek2>>, <<>>)

\* Inferior::print_backtrace
print_backtrace(p, pid, others) ==
    LET getregs == LogOp("print_backtrace", "getregs", pid, -1, <<>>, p, others)
    IN IF ~Traceable(p)
       THEN {BtResult("err", <<getregs>>, <<>>)}
       ELSE Frames(p, pid, others, p.rip, p.rbp, <<getregs, getregs>>, <<>>)

\* try_kill that waits whether or not the kill succeeded
try_kill_WaitsAnyway(p, pid, others) ==
    LET kill == LogOp("try_kill", "kill", pid, -1, <<>>, p, others)
        w == wait(p, pid, EvKill("SIGKILL"), others)
    IN [p |-> w.p, ops |-> <<kill>> \o w.ops,
        out |-> << Msg("Killing running inferior", pid, None) >>]

\* Inferior::try_kill: Child::kill succeeds on a live child; then wait
try_kill(p, pid, others) ==
    LET kill == LogOp("try_kill", "kill", pid, -1, <<>>, p, others)
    IN IF p.st = "stopped"
       THEN LET w == wait(p, pid, EvKill("SIGKILL"), others)
            IN [p |-> w.p, ops |-> <<kill>> \o w.ops,
                out |-> << Msg("Killing running inferior", pid, None) >>]
       ELSE [p |-> p, ops |-> <<kill>>, out |-> <<>>]

\* what Inferior::new saw when com.spawn() failed
SpawnFailed == [kind |-> "fail", sig |-> "", val |-> -1]

\* new that accepts any first stop of the child, whatever the signal
new_AnyStop(pid, ev, others) ==
    IF ev = SpawnFail
    THEN [some |-> FALSE, p |-> Unborn, first |-> SpawnFailed,
          ops |-> << LogOp("new", "spawn", pid, -1, <<>>, Unborn, others) >>]
    ELSE LET w == wait(Fresh, pid, ev, others)
         IN [some |-> (w.status.kind = "Stopped"),
             p |-> w.p, first |-> w.status,
             ops |-> << LogOp("new", "spawn", pid, -1, <<>>, Fresh, others) >> \o w.ops]

\* Inferior::new with the child's first event ev: Some(inferior) only after
\* a stop with SIGTRAP; first is the classification its wait returned
new(pid, ev, others) ==
    IF ev = SpawnFail
    THEN [some |-> FALSE, p |-> Unborn, first |-> SpawnFailed,
          ops |-> << LogOp("new", "spawn", pid, -1, <<>>, Unborn, others) >>]
    ELSE LET w == wait(Fresh, pid, ev, others)
         IN [some |-> (w.status.kind = "Stopped" /\ w.status.sig = "SIGTRAP"),
             p |-> w.p, first |-> w.status,
             ops |-> << LogOp("new", "spawn", pid, -1, <<>>, Fresh, others) >> \o w.ops]

(***************************************************************************)
(* Debugger                                                                *)
(***************************************************************************)
\* no call of write_byte on its own was made yet
WbInit == [n |-> 0, addr |-> None, val |-> None, orig |-> None, ok |-> TRUE,
           before |-> Image, after |-> Image]

(***************************************************************************)
(* parallel_map (week6): main and the worker threads as processes.  The    *)
(* channels are sequences; got is history: for every input index, the      *)
(* workers that received it, in order.                                     *)
(***************************************************************************)
PmVals == {2, 3}
PmInputs == UNION {[1..k -> PmVals] : k \in 0..MaxLen}

\* the closure of main: |num| num * num
F(v) == v * v

\* U::default() for the numbers of main
Default == 0

PmInit ==
    [pc |-> "idle", input |-> <<>>, cap |-> 0, n |-> 0, threads |-> 0, count |-> 0,
     inq |-> <<>>, outq |-> <<>>, inSender |-> FALSE, outSenders |-> {},
     w |-> <<>>, joined |-> 0, out |-> <<>>, got |-> <<>>]

(***************************************************************************)
(* LinkedList (week3): the boxes are nodes of a heap, nodes[id] holding    *)
(* the value and the id of the next node (None at the end).                *)
(***************************************************************************)
LlVals == {1, 2, 3}
NodeIds == 1..MaxNodes

\* LinkedList::new
LinkedList_new == [head |-> None, size |-> 0, nodes |-> NoMap]

\* LinkedList::get_size
get_size(l) == l.size

\* LinkedList::is_empty
is_empty(l) == get_size(l) = 0

\* Box::new: a node that is not in the heap
FreshNode(l) == CHOOSE id \in NodeIds : id \notin DOMAIN l.nodes

\* push_front whose new node does not take the old head as its next
push_front_NoLink(l, value) ==
    LET new_node == FreshNode(l)
    IN [head |-> new_node,
        size |-> l.size + 1,
        nodes |-> (new_node :> [value |-> value, next |-> None]) @@ l.nodes]

\* LinkedList::push_front
push_front(l, value) ==
    LET new_node == FreshNode(l)
    IN [head |-> new_node,
        size |-> l.size + 1,
        nodes |-> (new_node :> [value |-> value, next |-> l.head]) @@ l.nodes]

\* LinkedList::pop_front: the list afterwards and the value returned
pop_front(l) ==
    IF l.head = None
    THEN [list |-> l, ret |-> None]
    ELSE LET node == l.nodes[l.head]
         IN [list |-> [head |-> node.next,
                       size |-> l.size - 1,
                       nodes |-> [id \in DOMAIN l.nodes \ {l.head} |-> l.nodes[id]]],
             ret |-> node.value]

\* a new list; abs is the sequence of values pushed and not yet popped,
\* the latest first
LlInit == [list |-> LinkedList_new, abs |-> <<>>, op |-> "new", ret |-> None]
(***************************************************************************)
(* balancebeam (proj-2): one client connection in handle_connection.       *)
(* reads is the history of what request::read_from_stream returned, resps  *)
(* the responses passed to send_response (req: the index in reads of the   *)
(* request answered, 0 when none had been read), fwd the indices of the    *)
(* requests written to the upstream, lost the indices in resps of the      *)
(* responses whose write to the client failed.  pc is the await the        *)
(* handler is suspended in ("idle" before its first poll, "connect" in     *)
(* TcpStream::connect), or "closed" when it is over, end telling how       *)
(* ("return" or "panic"); after is where send_response returns to.         *)
(***************************************************************************)
\* request::read_from_stream: Ok(request), or an Error
ReadResults ==
    {"Ok", "IncompleteRequest(0)", "ConnectionError", "IncompleteRequest(n)",
     "MalformedRequest", "InvalidContentLength", "ContentLengthMismatch",
     "RequestBodyTooLarge"}

\* main.rs:173-180: the status code of the error response
StatusOf(error) ==
    CASE error \in {"IncompleteRequest(n)", "MalformedRequest",
                    "InvalidContentLength", "ContentLengthMismatch"} -> 400
      [] error = "RequestBodyTooLarge" -> 413
      [] error = "ConnectionError" -> 503

\* response::make_http_error(status), and a response read from the upstream
make_http_error(req, status) == [req |-> req, from |-> "proxy", code |-> status]
UpstreamResponse(req) == [req |-> req, from |-> "upstream", code |-> 200]

BbInit ==
    [pc |-> "idle", reads |-> <<>>, resps |-> <<>>, fwd |-> <<>>,
     lost |-> {}, after |-> "", end |-> ""]

VARIABLES
    inferior,     \* self.inferior: None or the pid of the held Inferior
    breakpoints,  \* self.breakpoints: address -> None | saved byte
    procs,        \* the processes spawned by the session, by pid
    phase,        \* "loop" (reading commands), "quit" (run returned), "panicked"
    cmd,          \* the command handled last, or the step taken last
    ops,          \* controller operations issued by the command handled last
    said,         \* messages printed by the command handled last
    out,          \* everything printed since the previous command was handled
    history_ok,   \* whether self.readline.save_history succeeds when called now
    status,       \* classification the last run/continue obtained, or NoStatus
    setIdx,       \* history: the N of every "Set breakpoint N" reported so far
    token,        \* the argument of the command handled last, if it was a break
    spawned,      \* what Inferior::new saw first in the command handled last
    wb,           \* the calls of write_byte made on their own (SpecWriteByte)
    pm,           \* one call of parallel_map (SpecParallelMap)
    ll,           \* a LinkedList and its use (SpecLinkedList)
    bb            \* one client connection of balancebeam (SpecBalancebeam)

vars == <<inferior, breakpoints, procs, phase, cmd, ops, said, out, history_ok,
          status, setIdx, token, spawned, wb, pm, ll, bb>>

\* the fields of struct Debugger and what the last command left
deetVars == <<inferior, breakpoints, procs, phase, cmd, ops, said, out,
              history_ok, status, setIdx, token, spawned>>

\* Debugger::new
Init ==
    /\ inferior = None
    /\ breakpoints = NoMap
    /\ procs = [pid \in Pids |-> Unborn]
    /\ phase = "loop"
    /\ cmd = "new"
    /\ ops = <<>>
    /\ said = <<>>
    /\ out = <<>>
    /\ history_ok \in BOOLEAN
    /\ status = NoStatus
    /\ setIdx = <<>>
    /\ token = <<>>
    /\ spawned = NoStatus
    /\ wb = WbInit
    /\ pm = PmInit
    /\ ll = LlInit
    /\ bb = BbInit

\* live processes of the session other than pid
Others(ps, pid) == {q \in Pids : q /= pid /\ ps[q].st = "stopped"}

\* orders in which a HashMap iteration can visit the keys S
Orders(S) ==
    {f \in [1..Cardinality(S) -> S] : \A i, j \in DOMAIN f : i /= j => f[i] /= f[j]}

\* debugger.rs:71-80: arm every entry that holds None, in iteration order;
\* stops at the first write_byte that fails (expect)
RECURSIVE Inject(_, _, _, _, _, _, _)
Inject(order, i, p, pid, bps, others, log) ==
    IF i > Len(order)
    THEN [ok |-> TRUE, p |-> p, bps |-> bps, ops |-> log]
    ELSE LET r == Arm(p, pid, order[i], others)
         IN IF ~r.ok
            THEN [ok |-> FALSE, p |-> r.p, bps |-> bps, ops |-> log \o r.ops]
            ELSE Inject(order, i + 1, r.p, pid,
                        [bps EXCEPT ![order[i]] = r.orig], others, log \o r.ops)

\* debugger.rs:85-104 and 123-141: the messages reported for a classification
Report(st) ==
    CASE st.kind = "Stopped" ->
           << MsgText("Child stopped", << st.sig >>) >>
           \o (IF get_line_from_addr(st.val) /= None
               THEN << Msg("Stopped at", get_line_from_addr(st.val), None) >>
               ELSE <<>>)
      [] st.kind = "Exited" -> << Msg("Child exited", st.val, None) >>
      [] OTHER -> << MsgText("signaled by", << st.sig >>) >>

\* the smallest pid not used yet
NextPid == CHOOSE pid \in Pids : procs[pid].st = "unborn"
                                  /\ \A q \in Pids : q < pid => procs[q].st /= "unborn"

\* debugger.rs:245-254: what a pass of get_next_command prints before it
\* looks the line up: nothing for a line that was not typed or is blank,
\* else the warning when this call of save_history fails; own is what
\* follows
Printed(typed, own) ==
    IF typed /\ ~history_ok
    THEN << Msg("Warning: failed to save history file at ", None, None) >> \o own
    ELSE own

\* DebuggerCommand::Run, debugger.rs:57-108
Run ==
    /\ phase = "loop"
    /\ \E pid \in Pids : procs[pid].st = "unborn"
    /\ cmd' = "run"
    /\ setIdx' = setIdx
    /\ token' = <<>>
    /\ UNCHANGED <<wb, pm, ll, bb>>
    /\ \E ev \in SpawnEvents :
         LET pid == NextPid
             n == new(pid, ev, Others(procs, pid))
         IN /\ spawned' = n.first
            /\ IF ~n.some
               THEN /\ procs' = [procs EXCEPT ![pid] = n.p]
                    /\ ops' = n.ops
                    /\ said' = << Msg("Error starting subprocess", None, None) >>
                    /\ UNCHANGED <<inferior, breakpoints, phase>>
                    /\ status' = NoStatus
               ELSE LET k == IF inferior /= None
                             THEN try_kill(procs[inferior], inferior, {pid})
                             ELSE [p |-> Unborn, ops |-> <<>>, out |-> <<>>]
                        ps1 == IF inferior /= None
                               THEN [procs EXCEPT ![inferior] = k.p]
                               ELSE procs
                        oth == Others(ps1, pid)
                        unarmed == {a \in DOMAIN breakpoints : breakpoints[a] = None}
                    IN \E order \in Orders(unarmed) :
                         LET inj == Inject(order, 1, n.p, pid, breakpoints, oth, <<>>)
                         IN /\ inferior' = pid
                            /\ breakpoints' = inj.bps
                            /\ IF ~inj.ok
                               THEN /\ procs' = [ps1 EXCEPT ![pid] = inj.p]
                                    /\ ops' = n.ops \o k.ops \o inj.ops
                                    /\ said' = k.out
                                    /\ status' = NoStatus
                                    /\ phase' = "panicked"
                               ELSE \E r \in continue_exec(inj.p, pid, inj.bps, oth) :
                                      /\ procs' = [ps1 EXCEPT ![pid] = r.p]
                                      /\ ops' = n.ops \o k.ops \o inj.ops \o r.ops
                                      /\ status' = r.status
                                      /\ IF r.res = "ok"
                                         THEN /\ said' = k.out \o r.out \o Report(r.status)
                                              /\ phase' = phase
                                         ELSE /\ said' = k.out \o r.out
                                              /\ phase' = "panicked"
    /\ out' = Printed(TRUE, said')
    /\ UNCHANGED history_ok

\* Continue that prints nothing when there is no inferior
Continue_Silent ==
    /\ phase = "loop"
    /\ cmd' = "continue"
    /\ UNCHANGED <<inferior, breakpoints, setIdx, wb, pm, ll, bb>>
    /\ token' = <<>>
    /\ spawned' = NoStatus
    /\ IF inferior = None
       THEN /\ said' = <<>>
            /\ ops' = <<>>
            /\ status' = NoStatus
            /\ UNCHANGED <<procs, phase>>
       ELSE \E r \in continue_exec(procs[inferior], inferior, breakpoints,
                                   Others(procs, inferior)) :
              /\ procs' = [procs EXCEPT ![inferior] = r.p]
              /\ ops' = r.ops
              /\ status' = r.status
              /\ IF r.res = "ok"
                 THEN /\ said' = r.out \o Report(r.status)
                      /\ phase' = phase
                 ELSE /\ said' = r.out
                      /\ phase' = "panicked"
    /\ out' = Printed(TRUE, said')
    /\ UNCHANGED history_ok

\* DebuggerCommand::Continue, debugger.rs:117-144
Continue ==
    /\ phase = "loop"
    /\ cmd' = "continue"
    /\ UNCHANGED <<inferior, breakpoints, setIdx, wb, pm, ll, bb>>
    /\ token' = <<>>
    /\ spawned' = NoStatus
    /\ IF inferior = None
       THEN /\ said' = << Msg("The program is not running currently!", None, None) >>
            /\ ops' = <<>>
            /\ status' = NoStatus
            /\ UNCHANGED <<procs, phase>>
       ELSE \E r \in continue_exec(procs[inferior], inferior, breakpoints,
                                   Others(procs, inferior)) :
              /\ procs' = [procs EXCEPT ![inferior] = r.p]
              /\ ops' = r.ops
              /\ status' = r.status
              /\ IF r.res = "ok"
                 THEN /\ said' = r.out \o Report(r.status)
                      /\ phase' = phase
                 ELSE /\ said' = r.out
                      /\ phase' = "panicked"
    /\ out' = Printed(TRUE, said')
    /\ UNCHANGED history_ok

\* record_breakpoint that inserts None whether or not a target is held
record_breakpoint_NeverArms(addr) ==
    IF addr \in DOMAIN breakpoints
    THEN /\ said' = << Msg("BreakPoint has been added", None, addr) >>
         /\ ops' = <<>>
         /\ UNCHANGED <<inferior, breakpoints, procs, phase, setIdx>>
    ELSE /\ said' = << Msg("Set breakpoint", Cardinality(DOMAIN breakpoints), addr) >>
         /\ setIdx' = Append(setIdx, Cardinality(DOMAIN breakpoints))
         /\ breakpoints' = (addr :> None) @@ breakpoints
         /\ ops' = <<>>
         /\ UNCHANGED <<inferior, procs, phase>>

\* record_breakpoint without the contains_key test of debugger.rs:205
record_breakpoint_NoDupTest(addr) ==
    /\ said' = << Msg("Set breakpoint", Cardinality(DOMAIN breakpoints), addr) >>
    /\ setIdx' = Append(setIdx, Cardinality(DOMAIN breakpoints))
    /\ inferior' = inferior
    /\ IF inferior /= None
       THEN LET r == Arm(procs[inferior], inferior, addr, Others(procs, inferior))
            IN /\ ops' = r.ops
               /\ procs' = [procs EXCEPT ![inferior] = r.p]
               /\ IF r.ok
                  THEN /\ breakpoints' = (addr :> r.orig) @@ breakpoints
                       /\ phase' = phase
                  ELSE /\ breakpoints' = breakpoints
                       /\ phase' = "panicked"
       ELSE /\ breakpoints' = (addr :> None) @@ breakpoints
            /\ ops' = <<>>
            /\ UNCHANGED <<procs, phase>>

\* Debugger::record_breakpoint, debugger.rs:204-223
record_breakpoint(addr) ==
    IF addr \in DOMAIN breakpoints
    THEN /\ said' = << Msg("BreakPoint has been added", None, addr) >>
         /\ ops' = <<>>
         /\ UNCHANGED <<inferior, breakpoints, procs, phase, setIdx>>
    ELSE /\ said' = << Msg("Set breakpoint", Cardinality(DOMAIN breakpoints), addr) >>
         /\ setIdx' = Append(setIdx, Cardinality(DOMAIN breakpoints))
         /\ inferior' = inferior
         /\ IF inferior /= None
            THEN LET r == Arm(procs[inferior], inferior, addr,
                              Others(procs, inferior))
                 IN /\ ops' = r.ops
                    /\ procs' = [procs EXCEPT ![inferior] = r.p]
                    /\ IF r.ok
                       THEN /\ breakpoints' = (addr :> r.orig) @@ breakpoints
                            /\ phase' = phase
                       ELSE /\ breakpoints' = breakpoints
                            /\ phase' = "panicked"
            ELSE /\ breakpoints' = (addr :> None) @@ breakpoints
                 /\ ops' = <<>>
                 /\ UNCHANGED <<procs, phase>>

\* a break request that registers nothing: one message, or the panic of
\* an unwrap
Refuse(msgs, ph) ==
    /\ said' = msgs
    /\ phase' = ph
    /\ ops' = <<>>
    /\ UNCHANGED <<inferior, breakpoints, procs, setIdx>>

\* record_breakpoint, while the table has room for the address
Register(addr) ==
    /\ addr \in DOMAIN breakpoints \/ Cardinality(DOMAIN breakpoints) < MaxBreaks
    /\ record_breakpoint(addr)

\* DebuggerCommand::Break(addr), debugger.rs:154-199
Break ==
    /\ phase = "loop"
    /\ cmd' = "break"
    /\ status' = NoStatus
    /\ spawned' = NoStatus
    /\ UNCHANGED <<wb, pm, ll, bb>>
    /\ \E tok \in Tokens :
         /\ token' = tok
         /\ IF StartsWith(tok, << "*", "0", "x" >>)
            THEN LET addr == parse_address(Tail(tok))
                 IN IF addr = None
                    THEN Refuse(<<>>, "panicked")
                    ELSE Register(addr)
            ELSE LET line == parse_address(tok)
                 IN IF line /= None
                    THEN IF get_addr_for_line(line) /= None
                         THEN Register(get_addr_for_line(line))
                         ELSE Refuse(<< MsgText("No such line", Display(line)) >>, "loop")
                    ELSE IF get_addr_for_function(tok) /= None
                         THEN Register(get_addr_for_function(tok))
                         ELSE Refuse(<< MsgText("No such function", tok) >>, "loop")
    /\ out' = Printed(TRUE, said')
    /\ UNCHANGED history_ok

\* DebuggerCommand::Quit, debugger.rs:109-116
Quit ==
    /\ phase = "loop"
    /\ cmd' = "quit"
    /\ phase' = "quit"
    /\ status' = NoStatus
    /\ inferior' = None
    /\ UNCHANGED <<breakpoints, setIdx, wb, pm, ll, bb>>
    /\ token' = <<>>
    /\ spawned' = NoStatus
    /\ IF inferior /= None
       THEN LET k == try_kill(procs[inferior], inferior, Others(procs, inferior))
            IN /\ procs' = [procs EXCEPT ![inferior] = k.p]
               /\ ops' = k.ops
               /\ said' = k.out
       ELSE /\ ops' = <<>>
            /\ said' = <<>>
            /\ procs' = procs
    /\ \E eof \in BOOLEAN : out' = Printed(~eof, said')
    /\ UNCHANGED history_ok

\* DebuggerCommand::BackTrace, debugger.rs:145-153
BackTrace ==
    /\ phase = "loop"
    /\ cmd' = "backtrace"
    /\ status' = NoStatus
    /\ token' = <<>>
    /\ spawned' = NoStatus
    /\ UNCHANGED <<inferior, breakpoints, procs, setIdx, wb, pm, ll, bb>>
    /\ IF inferior /= None
       THEN \E r \in print_backtrace(procs[inferior], inferior,
                                     Others(procs, inferior)) :
              /\ ops' = r.ops
              /\ said' = r.out
              /\ phase' = IF r.res = "ok" THEN phase ELSE "panicked"
       ELSE /\ ops' = <<>>
            /\ said' = <<>>
            /\ phase' = phase
    /\ out' = Printed(TRUE, said')
    /\ UNCHANGED history_ok

\* lines the user may type, as the words of line.split_whitespace(): a blank
\* line, a word that is no command, and a command
Lines == { <<>>, << "frobnicate" >>, << "quit" >> }

\* DebuggerCommand::from_tokens: the command named by the first word, or
\* "None"
from_tokens(tokens) ==
    IF tokens = <<>> THEN "None"
    ELSE CASE tokens[1] \in {"q", "quit"} -> "Quit"
           [] tokens[1] \in {"r", "run"} -> "Run"
           [] tokens[1] \in {"c", "cont", "continue"} -> "Continue"
           [] tokens[1] \in {"bt", "back", "backtrace"} -> "BackTrace"
           [] tokens[1] \in {"b", "break"} -> "Break"
           [] OTHER -> "None"

\* what self.readline.readline returns when no command follows: Ok(line),
\* Err(Interrupted) for ctrl-c, or another error (Err(Eof) is the command
\* Quit)
ReadlineResults ==
    {[err |-> "none", line |-> l] : l \in Lines}
      \cup {[err |-> e, line |-> <<>>] : e \in {"Interrupted", "Io"}}

\* a pass of get_next_command's loop that kills the target before it
\* prompts again
Reprompt_DropsTarget ==
    /\ phase = "loop"
    /\ \E r \in ReadlineResults :
         /\ r.err = "none" => from_tokens(r.line) = "None"
         /\ cmd' = CASE r.err = "Interrupted" -> "interrupted"
                     [] r.err = "Io" -> "readline_error"
                     [] r.line = <<>> -> "blank"
                     [] OTHER -> "unrecognized"
         /\ said' = CASE r.err = "Interrupted" ->
                          << Msg("Type \"quit\" to exit", None, None) >>
                     [] r.err = "none" /\ r.line /= <<>> ->
                          << Msg("Unrecognized command.", None, None) >>
                     [] OTHER -> <<>>
         /\ phase' = IF r.err = "Io" THEN "panicked" ELSE phase
    /\ ops' = <<>>
    /\ status' = NoStatus
    /\ token' = <<>>
    /\ spawned' = NoStatus
    /\ inferior' = None
    /\ UNCHANGED <<breakpoints, procs, setIdx, wb, pm, ll, bb>>
    /\ out' = Printed(cmd' \in {"unrecognized"}, said')
    /\ UNCHANGED history_ok

\* debugger.rs:231-262: a pass of get_next_command's loop that returns no
\* command: ctrl-c (a hint is printed), a blank line, a line from_tokens
\* does not recognize; any other readline error panics
Reprompt ==
    /\ phase = "loop"
    /\ \E r \in ReadlineResults :
         /\ r.err = "none" => from_tokens(r.line) = "None"
         /\ cmd' = CASE r.err = "Interrupted" -> "interrupted"
                     [] r.err = "Io" -> "readline_error"
                     [] r.line = <<>> -> "blank"
                     [] OTHER -> "unrecognized"
         /\ said' = CASE r.err = "Interrupted" ->
                          << Msg("Type \"quit\" to exit", None, None) >>
                     [] r.err = "none" /\ r.line /= <<>> ->
                          << Msg("Unrecognized command.", None, None) >>
                     [] OTHER -> <<>>
         /\ phase' = IF r.err = "Io" THEN "panicked" ELSE phase
    /\ ops' = <<>>
    /\ status' = NoStatus
    /\ token' = <<>>
    /\ spawned' = NoStatus
    /\ UNCHANGED <<inferior, breakpoints, procs, setIdx, wb, pm, ll, bb>>
    /\ out' = Printed(cmd' \in {"unrecognized"}, said')
    /\ UNCHANGED history_ok

\* debugger.rs:249: the result of each call of save_history is that of
\* writing the file at history_path, which the file system decides: between
\* two prompts the file may become unwritable, or writable again.  Nothing
\* is printed and no operation is issued.
HistoryFile ==
    /\ phase = "loop"
    /\ history_ok' = ~history_ok
    /\ cmd' = "environment"
    /\ ops' = <<>>
    /\ said' = <<>>
    /\ out' = <<>>
    /\ status' = NoStatus
    /\ token' = <<>>
    /\ spawned' = NoStatus
    /\ UNCHANGED <<inferior, breakpoints, procs, phase, setIdx, wb, pm, ll, bb>>

Next == Run \/ Continue \/ Break \/ Quit \/ BackTrace \/ Reprompt \/ HistoryFile

Spec == Init /\ [][Next]_vars

(***************************************************************************)
(* write_byte on its own: calls with addresses and bytes drawn from        *)
(* WbAddrs and WbVals, each on the memory the previous call left.          *)
(***************************************************************************)
WbAddrs == 8..15 \cup {19, UnmappedAddr}
WbVals == {0, TrapOpcode, 255}

WriteByteStep ==
    /\ wb.n < MaxWrites
    /\ \E addr \in WbAddrs, val \in WbVals :
         LET r == write_byte([Fresh EXCEPT !.mem = wb.after], 1, addr, val, {})
         IN wb' = [n |-> wb.n + 1, addr |-> addr, val |-> val, orig |-> r.orig,
                   ok |-> r.ok, before |-> wb.after, after |-> r.p.mem]
    /\ UNCHANGED <<deetVars, pm, ll, bb>>

SpecWriteByte == Init /\ [][WriteByteStep]_vars

(***************************************************************************)
(* parallel_map: main is at pm.pc, worker k at pm.w[k].pc.  Sender 0 of    *)
(* the output channel is main's, sender k is worker k's clone.             *)
(***************************************************************************)
PmFrame == UNCHANGED <<deetVars, wb, ll, bb>>

\* main.rs:10-14: a call with an input vector and num_threads >= 1;
\* Vec::with_capacity(input_vec.len()) gives a vector whose capacity is at
\* least the length asked for
PmStart ==
    /\ pm.pc = "idle"
    /\ \E input \in PmInputs, n \in 1..MaxThreads,
          cap \in 0..(MaxLen + MaxSpare) :
         /\ cap \in Len(input)..(Len(input) + MaxSpare)
         /\ pm' = [PmInit EXCEPT !.pc = "spawn", !.input = input, !.n = n,
                              !.cap = cap,
                              !.inSender = TRUE, !.outSenders = {0},
                              !.got = [i \in 1..Len(input) |-> <<>>]]
    /\ PmFrame

\* main.rs:16-25: spawn one worker with clones of the receiver and the sender
PmSpawn ==
    /\ pm.pc = "spawn"
    /\ pm' = [pm EXCEPT !.threads = @ + 1,
                        !.w = Append(@, [pc |-> "recv", item |-> <<>>]),
                        !.outSenders = @ \cup {pm.threads + 1},
                        !.pc = IF pm.threads + 1 = pm.n THEN "send" ELSE "spawn"]
    /\ PmFrame

\* main.rs:27-30: send (count, value)
PmSend ==
    /\ pm.pc = "send"
    /\ pm.count < Len(pm.input)
    /\ pm' = [pm EXCEPT !.inq = Append(@, <<pm.count, pm.input[pm.count + 1]>>),
                        !.count = @ + 1]
    /\ PmFrame

\* main.rs:31: drop(sender_input)
PmDropInput ==
    /\ pm.pc = "send"
    /\ pm.count = Len(pm.input)
    /\ pm' = [pm EXCEPT !.inSender = FALSE, !.pc = "drop_out"]
    /\ PmFrame

\* PmDropOutput without the drop: main keeps its sender of the output channel
PmDropOutput_Keeps ==
    /\ pm.pc = "drop_out"
    /\ pm' = [pm EXCEPT !.pc = "join"]
    /\ PmFrame

\* main.rs:32: drop(sender_output)
PmDropOutput ==
    /\ pm.pc = "drop_out"
    /\ pm' = [pm EXCEPT !.outSenders = @ \ {0}, !.pc = "join"]
    /\ PmFrame

\* main.rs:33-35: thread.join() of the next thread returns once it has ended
PmJoin ==
    /\ pm.pc = "join"
    /\ pm.w[pm.joined + 1].pc = "done"
    /\ pm' = [pm EXCEPT !.joined = @ + 1,
                        !.pc = IF pm.joined + 1 = pm.n THEN "resize" ELSE "join"]
    /\ PmFrame

\* main.rs:36: output_vec.resize_with(output_vec.capacity(), Default::default)
PmResize ==
    /\ pm.pc = "resize"
    /\ pm' = [pm EXCEPT !.out = [i \in 1..pm.cap |-> Default],
                        !.pc = "drain"]
    /\ PmFrame

\* main.rs:38-40: output_vec[index] = value
PmDrain ==
    /\ pm.pc = "drain"
    /\ pm.outq /= <<>>
    /\ pm' = [pm EXCEPT !.out[Head(pm.outq)[1] + 1] = Head(pm.outq)[2],
                        !.outq = Tail(@)]
    /\ PmFrame

\* main.rs:38, 41: recv fails on the empty channel without senders; return
PmReturn ==
    /\ pm.pc = "drain"
    /\ pm.outq = <<>>
    /\ pm.outSenders = {}
    /\ pm' = [pm EXCEPT !.pc = "done"]
    /\ PmFrame

\* main.rs:20-21: worker k receives (index, value) and computes f(value)
WRecv(k) ==
    /\ pm.w[k].pc = "recv"
    /\ pm.inq /= <<>>
    /\ pm' = [pm EXCEPT !.inq = Tail(@),
                        !.got[Head(pm.inq)[1] + 1] = Append(@, k),
                        !.w[k] = [pc |-> "send",
                                  item |-> <<Head(pm.inq)[1], F(Head(pm.inq)[2])>>]]
    /\ PmFrame

\* main.rs:21: worker k sends (index, f(value)) on the unbounded channel
WSend(k) ==
    /\ pm.w[k].pc = "send"
    /\ pm' = [pm EXCEPT !.outq = Append(@, pm.w[k].item),
                        !.w[k] = [pc |-> "recv", item |-> <<>>]]
    /\ PmFrame

\* main.rs:20, 23-24: recv fails on the empty channel without sender; the
\* worker drops its sender and ends
WExit(k) ==
    /\ pm.w[k].pc = "recv"
    /\ pm.inq = <<>>
    /\ ~pm.inSender
    /\ pm' = [pm EXCEPT !.w[k] = [pc |-> "done", item |-> <<>>],
                        !.outSenders = @ \ {k}]
    /\ PmFrame

NextPM ==
    \/ PmStart \/ PmSpawn \/ PmSend \/ PmDropInput \/ PmDropOutput \/ PmJoin
    \/ PmResize \/ PmDrain \/ PmReturn
    \/ \E k \in DOMAIN pm.w : WRecv(k)
    \/ \E k \in DOMAIN pm.w : WSend(k)
    \/ \E k \in DOMAIN pm.w : WExit(k)

SpecParallelMap == Init /\ [][NextPM]_vars

\* the threads keep being scheduled: while some step is possible, one is taken
SpecParallelMapLive == SpecParallelMap /\ WF_vars(NextPM)

(***************************************************************************)
(* LinkedList: a list used through push_front and pop_front.               *)
(***************************************************************************)
LlFrame == UNCHANGED <<deetVars, wb, pm, bb>>

\* list.push_front(value), while the list has fewer than MaxNodes nodes
LlPush ==
    /\ get_size(ll.list) < MaxNodes
    /\ \E value \in LlVals :
         ll' = [list |-> push_front(ll.list, value),
                abs |-> <<value>> \o ll.abs, op |-> "push", ret |-> None]
    /\ LlFrame

\* list.pop_front()
LlPop ==
    /\ ll' = [list |-> pop_front(ll.list).list,
              abs |-> IF ll.abs = <<>> THEN <<>> ELSE Tail(ll.abs),
              op |-> "pop", ret |-> pop_front(ll.list).ret]
    /\ LlFrame

NextLL == LlPush \/ LlPop

SpecLinkedList == Init /\ [][NextLL]_vars

(***************************************************************************)
(* balancebeam: handle_connection, one step per await on a stream.         *)
(***************************************************************************)
BbFrame == UNCHANGED <<deetVars, wb, pm, ll>>

\* a panic of the handler's task (peer_addr().unwrap())
Panic(b) == [b EXCEPT !.pc = "closed", !.end = "panic"]

\* `return` from handle_connection
Return(b) == [b EXCEPT !.pc = "closed", !.end = "return"]

\* main.rs:126-132: send_response up to its await: the states it can leave,
\* peer_addr() failing (unwrap panics) or the write to the client pending;
\* next is where the caller goes on after send_response
send_response(b, response, next) ==
    LET called == [b EXCEPT !.resps = Append(@, response)]
    IN { Panic(called),
         [called EXCEPT !.pc = "write_client", !.after = next] }

\* main.rs:140-144 and 108-114: the task's first poll, peer_addr() (unwrap
\* panics on failure), then connect_to_upstream up to its await of
\* TcpStream::connect, where the task is suspended
BbAccept ==
    /\ bb.pc = "idle"
    /\ bb' \in {Panic(bb), [bb EXCEPT !.pc = "connect"]}
    /\ BbFrame

\* main.rs:114-122 and 144-153: the connect resolves; on failure a 502 and
\* return, else peer_addr() again (unwrap panics on failure) and on to the
\* first read
BbConnect ==
    /\ bb.pc = "connect"
    /\ bb' \in {Panic(bb), [bb EXCEPT !.pc = "read"]}
                 \cup send_response(bb, make_http_error(0, 502), "closed")
    /\ BbFrame

\* main.rs:159-184: read a request from the client
BbRead ==
    /\ bb.pc = "read"
    /\ Len(bb.reads) < MaxReqs
    /\ \E res \in ReadResults :
         LET n == Len(bb.reads) + 1
             read == [bb EXCEPT !.reads = Append(@, res)]
         IN CASE res = "Ok" -> bb' = [read EXCEPT !.pc = "forward"]
              [] res \in {"IncompleteRequest(0)", "ConnectionError"} ->
                   bb' = Return(read)
              [] OTHER ->
                   bb' \in send_response(read, make_http_error(n, StatusOf(res)),
                                         "read")
    /\ BbFrame

\* main.rs:195-207: write the request to the upstream; on failure a 502 and
\* return
BbForward ==
    /\ bb.pc = "forward"
    /\ bb' \in {[bb EXCEPT !.fwd = Append(@, Len(bb.reads)), !.pc = "await"]}
                 \cup send_response(bb, make_http_error(Len(bb.reads), 502),
                                    "closed")
    /\ BbFrame

\* main.rs:211-222: read the upstream's response and pass it to
\* send_response; on failure a 502 and return
BbRespond ==
    /\ bb.pc = "await"
    /\ bb' \in send_response(bb, UpstreamResponse(Len(bb.reads)), "read")
                 \cup send_response(bb, make_http_error(Len(bb.reads), 502),
                                    "closed")
    /\ BbFrame

\* main.rs:133-136: send_response's write to the client; a failure is only
\* logged; then the caller goes on
BbWriteClient ==
    /\ bb.pc = "write_client"
    /\ \E ok \in BOOLEAN :
         LET written == [bb EXCEPT !.after = "",
                                   !.lost = IF ok THEN @ ELSE @ \cup {Len(bb.resps)}]
         IN bb' = IF bb.after = "closed" THEN Return(written)
                  ELSE [written EXCEPT !.pc = bb.after]
    /\ BbFrame

NextBB == BbAccept \/ BbConnect \/ BbRead \/ BbForward \/ BbRespond \/ BbWriteClient

SpecBalancebeam == Init /\ [][NextBB]_vars

(***************************************************************************)
(* Properties                                                              *)
(***************************************************************************)
\* names of the operations ops[i..Len(ops)]
OpNames(i) == [k \in 1..(Len(ops) - i + 1) |-> ops[i + k - 1].op]

IsPrefix(s, t) == Len(s) <= Len(t) /\ \A k \in 1..Len(s) : s[k] = t[k]

\* the mapped addresses
MappedAddrs == {a \in 0..UnmappedAddr : align_addr_to_word(a) \in MappedBases}

\* index of the getregs that opens continue_exec in ops, 0 when it did not run
ContinueExecStart ==
    IF \E i \in DOMAIN ops : ops[i].by = "continue_exec" /\ ops[i].op = "getregs"
    THEN CHOOSE i \in DOMAIN ops : ops[i].by = "continue_exec" /\ ops[i].op = "getregs"
    ELSE 0

\* the operations of a continue_exec that steps over a breakpoint, in order
StepOverOrder ==
    << "getregs", "peek", "poke", "setregs", "step", "waitpid", "getregs",
       "peek", "poke", "cont", "waitpid", "getregs" >>

\* C1: for every address a at which the trap byte was installed in the live
\* target, the byte at a is 0xcc whenever the target is freely resumed, and
\* during the single step that executes the instruction at a the byte at a
\* is its pre-arm value, which is the byte of the un-instrumented image;
\* every byte that is not an installed trap equals the image throughout.
C1_PatchRestore ==
    \A i \in DOMAIN ops :
      /\ ops[i].op = "cont" =>
           /\ \A a \in DOMAIN ops[i].prearm : ByteAt(ops[i].mem, a) = TrapOpcode
           /\ \A a \in MappedAddrs \ DOMAIN ops[i].prearm :
                ByteAt(ops[i].mem, a) = ImageByte(a)
      /\ ops[i].op = "step" =>
           /\ ops[i].rip \in DOMAIN ops[i].prearm =>
                /\ ByteAt(ops[i].mem, ops[i].rip) = ops[i].prearm[ops[i].rip]
                /\ ByteAt(ops[i].mem, ops[i].rip) = ImageByte(ops[i].rip)
           /\ \A a \in DOMAIN ops[i].prearm \ {ops[i].rip} :
                ByteAt(ops[i].mem, a) = TrapOpcode
           /\ \A a \in MappedAddrs \ DOMAIN ops[i].prearm :
                ByteAt(ops[i].mem, a) = ImageByte(a)

\* a continue stepped over a breakpoint armed in the live target, whose
\* image byte is not itself the trap opcode, and then resumed the target
C1_Witness ==
    \E i, j \in DOMAIN ops :
      /\ i < j
      /\ ops[i].op = "step"
      /\ ops[i].rip \in DOMAIN ops[i].prearm
      /\ ImageByte(ops[i].rip) /= TrapOpcode
      /\ ops[j].op = "cont"
      /\ Cardinality(DOMAIN ops[j].prearm) >= 2

\* C2: when continue_exec finds instruction_pointer - 1 in the breakpoint
\* table, its operations are, in this order and with nothing in between:
\* restore the saved byte at candidate, set the instruction pointer to
\* candidate, one single step, wait, re-patch the trap byte at candidate,
\* free resume, wait; a continue_exec that ends early issued a prefix of it.
C2_StepOverOrder ==
    LET g == ContinueExecStart
    IN (g > 0 /\ ops[g].pid \in ops[g].live
              /\ (ops[g].rip - 1) \in DOMAIN breakpoints) =>
         LET cand == ops[g].rip - 1
             names == OpNames(g)
         IN /\ IsPrefix(names, StepOverOrder)
            /\ Len(names) >= 4 =>
                 /\ ByteAt(ops[g + 3].mem, cand) = breakpoints[cand]
                 /\ ops[g + 3].a = cand
            /\ Len(names) >= 5 => ops[g + 4].rip = cand
            /\ Len(names) >= 10 => ByteAt(ops[g + 9].mem, cand) = TrapOpcode
            /\ status.kind /= "none" =>
                 \/ Len(names) = 6 /\ status.kind \in {"Exited", "Signaled"}
                 \/ Len(names) = 11 /\ status.kind \in {"Exited", "Signaled"}
                 \/ Len(names) = 12 /\ status.kind = "Stopped"

\* a continue_exec went through the whole step-over sequence and the target
\* stopped again
C2_Witness ==
    /\ ContinueExecStart > 0
    /\ OpNames(ContinueExecStart) = StepOverOrder
    /\ status.kind = "Stopped"

\* C3: on every run that spawns a new target, every address registered in
\* the breakpoint table holds the trap byte in the new target's memory when
\* that target is resumed for the first time.
C3_ArmedBeforeFirstResume ==
    cmd = "run" =>
      \A i \in DOMAIN ops :
        (ops[i].op = "cont" /\ ops[i].pid = inferior) =>
          \A a \in DOMAIN breakpoints : ByteAt(ops[i].mem, a) = TrapOpcode

\* C4: after the target exited or was killed by a signal, every entry of the
\* breakpoint table is Unarmed (holds no saved byte).
C4_UnarmedAfterExit ==
    status.kind \in {"Exited", "Signaled"} =>
      \A a \in DOMAIN breakpoints : breakpoints[a] = None

\* C5: whenever a run or continue ends with the classification Exited or
\* Signaled, the session holds no target handle.
C5_NoTargetAfterExit ==
    (cmd \in {"run", "continue"} /\ status.kind \in {"Exited", "Signaled"}) =>
      inferior = None

\* C6: at every controller operation, and between commands, at most one
\* live traced process belongs to the session.
C6_AtMostOneLive ==
    /\ Cardinality({pid \in Pids : procs[pid].st = "stopped"}) <= 1
    /\ \A i \in DOMAIN ops : Cardinality(ops[i].live) <= 1

\* C7: a break request for an address that is already in the table changes
\* neither the table nor the target's memory, issues no controller operation
\* and reports the already-added message instead of "Set breakpoint N"; and
\* no index N is ever reported twice.
C7_RegisterIdempotent ==
    /\ [][(cmd' = "break" /\ Len(said') = 1 /\ said'[1].a \in DOMAIN breakpoints) =>
            /\ said' = << Msg("BreakPoint has been added", None, said'[1].a) >>
            /\ breakpoints' = breakpoints
            /\ procs' = procs
            /\ ops' = <<>>
            /\ setIdx' = setIdx]_vars
    /\ [](\A i, j \in DOMAIN setIdx : i /= j => setIdx[i] /= setIdx[j])

\* an armed address was requested again after two breakpoints had been set
C7_Witness ==
    /\ cmd = "break"
    /\ Len(said) = 1
    /\ said = << Msg("BreakPoint has been added", None, said[1].a) >>
    /\ said[1].a \in DOMAIN breakpoints
    /\ breakpoints[said[1].a] /= None
    /\ Len(setIdx) >= 2

\* C8: a continue issued while the session holds no target reports "not
\* running", issues no controller operation and leaves the breakpoint table,
\* the processes and the session unchanged.
C8_ContinueNoTarget ==
    [][(cmd' = "continue" /\ inferior = None) =>
         /\ said' = << Msg("The program is not running currently!", None, None) >>
         /\ ops' = <<>>
         /\ breakpoints' = breakpoints
         /\ procs' = procs
         /\ inferior' = None
         /\ phase' = "loop"]_vars

\* continue was issued with no target and a registered breakpoint
C8_Witness ==
    /\ cmd = "continue"
    /\ inferior = None
    /\ ops = <<>>
    /\ DOMAIN breakpoints /= {}

\* C9 as stated: when the target stops because it executed the trap byte of
\* a breakpoint at address a, the classification is Stopped with an
\* instruction pointer equal to a.
C9_StoppedAtBreakpointAddr ==
    (cmd \in {"run", "continue"} /\ status.kind = "Stopped"
       /\ procs[inferior].hit \in DOMAIN breakpoints) =>
      status.val = procs[inferior].hit

\* C9 amended: when the target stops because it executed the trap byte of a
\* breakpoint at address a, the classification is Stopped with signal
\* SIGTRAP and an instruction pointer equal to a + 1, one past the trap byte.
C9_StoppedPastBreakpoint ==
    (cmd \in {"run", "continue"} /\ status.kind = "Stopped"
       /\ procs[inferior].hit \in DOMAIN breakpoints) =>
      /\ status.sig = "SIGTRAP"
      /\ status.val = procs[inferior].hit + 1

\* the target ran into the trap byte the debugger installed for a breakpoint
C9_Witness ==
    /\ cmd \in {"run", "continue"}
    /\ status.kind = "Stopped"
    /\ procs[inferior].hit \in DOMAIN breakpoints
    /\ procs[inferior].hit \in DOMAIN procs[inferior].prearm
    /\ ImageByte(procs[inferior].hit) /= TrapOpcode

\* C10: if the single step of the step-over reports Exited or Signaled,
\* continue_exec returns that classification at once: the wait of the step
\* is its last operation (no write, no resume, no further wait).
C10_StepExitPropagates ==
    \A i \in DOMAIN ops :
      (ops[i].op = "step" /\ i < Len(ops) /\ ops[i].pid \notin ops[i + 1].live) =>
        /\ Len(ops) = i + 1
        /\ ops[i + 1].op = "waitpid"
        /\ status.kind \in {"Exited", "Signaled"}
        /\ phase = "loop"

\* the single step of a step-over ended the process
C10_Witness ==
    \E i \in DOMAIN ops :
      /\ ops[i].op = "step"
      /\ i < Len(ops)
      /\ ops[i].pid \notin ops[i + 1].live
      /\ status.kind = "Exited"

\* the address the resolution order of C11 gives a break request: a "*0x"
\* hexadecimal literal is the address; otherwise the line lookup; otherwise
\* the function lookup; None when nothing resolves
ClaimedAddr(tok) ==
    IF StartsWith(tok, << "*", "0", "x" >>) /\ parse_address(Tail(tok)) /= None
    THEN parse_address(Tail(tok))
    ELSE IF parse_address(tok) /= None /\ get_addr_for_line(parse_address(tok)) /= None
    THEN get_addr_for_line(parse_address(tok))
    ELSE get_addr_for_function(tok)

\* text contains the characters tok in a row
Contains(text, tok) ==
    \E i \in 1..(Len(text) - Len(tok) + 1) : SubSeq(text, i, i + Len(tok) - 1) = tok

\* C11: a break request is resolved as a hexadecimal address literal, else
\* as a source line, else (also when the line lookup fails) as a function
\* name, and the breakpoint is registered at the first address that resolves.
C11_ResolutionOrder ==
    (cmd = "break" /\ ClaimedAddr(token) /= None) =>
      /\ Len(said) = 1
      /\ said[1].m \in {"Set breakpoint", "BreakPoint has been added"}
      /\ said[1].a = ClaimedAddr(token)

\* C12: a break request whose token resolves neither as an address, nor as
\* a line, nor as a function leaves the breakpoint table and the target
\* unchanged and reports one message that contains the token as typed.
C12_UnresolvedNamesToken ==
    [][(cmd' = "break" /\ ClaimedAddr(token') = None) =>
         /\ breakpoints' = breakpoints
         /\ procs' = procs
         /\ ops' = <<>>
         /\ phase' = "loop"
         /\ Len(said') = 1
         /\ Contains(said'[1].t, token')]_vars

\* the last operation of the command was a memory access that failed on a
\* live target
FailedOnLiveTarget ==
    /\ ops /= <<>>
    /\ ops[Len(ops)].op = "peek"
    /\ ops[Len(ops)].pid \in ops[Len(ops)].live
    /\ ops[Len(ops)].a \notin DOMAIN ops[Len(ops)].mem

\* C13: when a register or memory operation of run or continue fails on a
\* live target, the command loop goes on and the session still holds that
\* target.
C13_FailureKeepsSession ==
    (cmd \in {"run", "continue"} /\ FailedOnLiveTarget) =>
      /\ phase = "loop"
      /\ inferior = ops[Len(ops)].pid

\* the last operation of the command failed: a register read on a process
\* that is gone, or a read outside mapped memory
LastOpFailed ==
    /\ ops /= <<>>
    /\ \/ ops[Len(ops)].op = "getregs" /\ ops[Len(ops)].pid \notin ops[Len(ops)].live
       \/ ops[Len(ops)].op = "peek" /\ ops[Len(ops)].a \notin DOMAIN ops[Len(ops)].mem

\* C14: a backtrace whose register read or frame-pointer read fails is not
\* fatal: the command loop goes on.
C14_BacktraceFailureNotFatal ==
    (cmd = "backtrace" /\ LastOpFailed) => phase = "loop"

\* the frames a backtrace printed
IsMainFrame(f) == f.m = "frame" /\ f.t = << "main" >>
NumPeeks == Cardinality({i \in DOMAIN ops : ops[i].op = "peek"})

\* C15: a backtrace of a target whose instruction pointer resolves to main
\* prints exactly one frame and reads no target memory; every backtrace that
\* completes prints one frame per step of the frame-pointer chain (two reads
\* per step) and its only frame of main is the last one.
C15_BacktraceStopsAtMain ==
    (cmd = "backtrace" /\ inferior /= None /\ procs[inferior].st = "stopped") =>
      /\ get_function_from_addr(procs[inferior].rip) = "main" =>
           /\ phase = "loop"
           /\ Len(said) = 1
           /\ IsMainFrame(said[1])
           /\ said[1].n = get_line_from_addr(procs[inferior].rip)
           /\ NumPeeks = 0
      /\ phase = "loop" =>
           /\ Len(said) >= 1
           /\ IsMainFrame(said[Len(said)])
           /\ \A k \in 1..(Len(said) - 1) : ~IsMainFrame(said[k])
           /\ NumPeeks = 2 * (Len(said) - 1)
      /\ \A k \in DOMAIN said : said[k].m = "frame"

\* a backtrace was taken of a target stopped in add, called from main: the
\* walk printed the frame of add, read the two words of the frame and
\* printed the frame of main
C15_Witness ==
    /\ cmd = "backtrace"
    /\ inferior /= None
    /\ procs[inferior].st = "stopped"
    /\ procs[inferior].rip = LoopFrom
    /\ phase = "loop"
    /\ said = << Frame("add", get_line_from_addr(LoopFrom)),
                 Frame("main", get_line_from_addr(ReturnAddr)) >>
    /\ NumPeeks = 2

\* C16: continue and backtrace, issued while the session holds no target,
\* each print a notice and issue no controller operation.
C16_NoticeWithoutTarget ==
    (cmd \in {"continue", "backtrace"} /\ inferior = None) =>
      /\ said /= <<>>
      /\ ops = <<>>

\* C17: when the target fails to spawn or its first stop is not a stop with
\* SIGTRAP, run reports a launch failure and does nothing else: the session,
\* the breakpoint table and every other process are unchanged, and the only
\* operations are the spawn and the first wait.
C17_LaunchFailure ==
    [][(cmd' = "run" /\ ~(spawned'.kind = "Stopped" /\ spawned'.sig = "SIGTRAP")) =>
         /\ said' = << Msg("Error starting subprocess", None, None) >>
         /\ inferior' = inferior
         /\ breakpoints' = breakpoints
         /\ phase' = "loop"
         /\ status' = NoStatus
         /\ \A i \in DOMAIN ops' : /\ ops'[i].by \in {"new", "wait"}
                                   /\ ops'[i].op \in {"spawn", "waitpid", "getregs"}
         /\ \A pid \in Pids : pid /= ops'[1].pid => procs'[pid] = procs[pid]]_vars

\* a run, issued with no target and an unarmed breakpoint, saw the child
\* stop with a signal other than SIGTRAP
C17_Witness ==
    /\ cmd = "run"
    /\ spawned.kind = "Stopped"
    /\ spawned.sig = "SIGSTOP"
    /\ inferior = None
    /\ \E a \in DOMAIN breakpoints : breakpoints[a] = None

\* C18: write_byte succeeds exactly on mapped addresses; it returns the byte
\* that was at the address, leaves the new byte there and leaves every other
\* byte of memory, so every other byte of the aligned word, unchanged.
C18_WriteByteSplice ==
    wb.n > 0 =>
      /\ wb.ok <=> wb.addr \in MappedAddrs
      /\ wb.ok =>
           /\ wb.orig = ByteAt(wb.before, wb.addr)
           /\ ByteAt(wb.after, wb.addr) = wb.val
           /\ \A a \in MappedAddrs \ {wb.addr} :
                ByteAt(wb.after, a) = ByteAt(wb.before, a)
      /\ ~wb.ok => wb.after = wb.before

\* the last byte of a word was overwritten in a word whose first byte an
\* earlier call had changed
C18_Witness ==
    /\ wb.n = 2
    /\ wb.ok
    /\ wb.addr = 15
    /\ wb.val = 255
    /\ ByteAt(wb.before, 8) /= ImageByte(8)
    /\ wb.orig = ImageByte(15)

\* C19: the saved byte of every Armed table entry is the byte of the
\* un-instrumented program image at that address.
C19_SavedByteIsImage ==
    \A a \in DOMAIN breakpoints :
      breakpoints[a] /= None => breakpoints[a] = ImageByte(a)

\* two entries are Armed, the target was replaced and stepped over one of
\* them
C19_Witness ==
    /\ inferior = 2
    /\ \E a, b \in DOMAIN breakpoints :
         /\ a /= b
         /\ breakpoints[a] /= None
         /\ breakpoints[b] /= None
         /\ breakpoints[a] /= TrapOpcode
    /\ \E i \in DOMAIN ops : ops[i].op = "step"

\* C20: when quit or run is handled while the session holds a live target,
\* that target is sent a kill followed at once by the wait that reaps it,
\* and after the command no process spawned by the session is alive unless
\* the session holds its handle; quit always releases the handle.
C20_KillAndReap ==
    [][cmd' \in {"quit", "run"} =>
         /\ (inferior /= None /\ procs[inferior].st = "stopped") =>
              /\ procs'[inferior].st = "dead"
              /\ \E i \in 1..(Len(ops') - 1) :
                   /\ ops'[i].op = "kill" /\ ops'[i].pid = inferior
                   /\ inferior \in ops'[i].live
                   /\ ops'[i + 1].op = "waitpid" /\ ops'[i + 1].pid = inferior
                   /\ inferior \notin ops'[i + 1].live
         /\ \A pid \in Pids : procs'[pid].st = "stopped" => inferior' = pid
         /\ cmd' = "quit" => inferior' = None]_vars

\* C21: a blank line and an unrecognized line only lead to a new prompt:
\* target handle, processes (memory and registers), breakpoint table and
\* reported indices are unchanged, no controller operation is issued, and
\* the command loop goes on.
C21_RepromptChangesNothing ==
    [][cmd' \in {"blank", "unrecognized"} =>
         /\ inferior' = inferior
         /\ procs' = procs
         /\ breakpoints' = breakpoints
         /\ setIdx' = setIdx
         /\ ops' = <<>>
         /\ phase' = "loop"
         /\ cmd' = "unrecognized" =>
              said' = << Msg("Unrecognized command.", None, None) >>]_vars

\* an unrecognized line was typed while a live target with an armed
\* breakpoint was held
C21_Witness ==
    /\ cmd = "unrecognized"
    /\ inferior /= None
    /\ procs[inferior].st = "stopped"
    /\ \E a \in DOMAIN breakpoints :
         breakpoints[a] /= None /\ a \in DOMAIN procs[inferior].prearm

\* C22: when the wait after the single step of the step-over reports the
\* target stopped, whatever the signal, continue_exec writes the trap byte
\* back at candidate and issues the free resume, and the debugger goes on.
C22_StepStopRearms ==
    cmd \in {"run", "continue"} =>
      \A i \in DOMAIN ops :
        (/\ ops[i].op = "step"
         /\ i < Len(ops)
         /\ ops[i + 1].op = "waitpid"
         /\ ops[i + 1].pid \in ops[i + 1].live) =>
          /\ phase = "loop"
          /\ Len(ops) >= i + 5
          /\ ops[i + 3].op = "peek"
          /\ ops[i + 4].op = "poke"
          /\ ops[i + 5].op = "cont"
          /\ ByteAt(ops[i + 5].mem, ops[i].rip) = TrapOpcode

\* C23: a kill sent to a process that is gone fails and is followed by no
\* wait for it, and the command goes on (quit returns, run proceeds to the
\* new target); a kill sent to a live process is followed by exactly one
\* wait for it.
C23_KillThenOneWait ==
    \A i \in DOMAIN ops :
      ops[i].op = "kill" =>
        IF ops[i].pid \in ops[i].live
        THEN /\ i < Len(ops)
             /\ ops[i + 1].op = "waitpid"
             /\ ops[i + 1].pid = ops[i].pid
             /\ i + 2 <= Len(ops) => ops[i + 2].pid /= ops[i].pid
        ELSE /\ i < Len(ops) => ops[i + 1].pid /= ops[i].pid
             /\ cmd = "quit" => (phase = "quit" /\ i = Len(ops))
             /\ cmd = "run" => i < Len(ops)

\* quit was issued while the session held a target that had ended
C23_Witness ==
    /\ cmd = "quit"
    /\ Len(ops) = 1
    /\ ops[1].op = "kill"
    /\ ops[1].pid \notin ops[1].live
    /\ procs[ops[1].pid].st = "dead"

\* the latest stop of p was not the execution of a trap byte the debugger
\* installed in it
UnrelatedStop(p) == p.hit = None \/ p.hit \notin DOMAIN p.prearm

\* C24: a continue issued after a stop that was not caused by a breakpoint's
\* trap byte goes directly to the free resume: its operations are the
\* register read and the resume, with registers and memory as they were.
C24_NoRewindAfterUnrelatedStop ==
    [][(/\ cmd' = "continue"
        /\ inferior /= None
        /\ procs[inferior].st = "stopped"
        /\ UnrelatedStop(procs[inferior])) =>
          /\ Len(ops') >= 2
          /\ ops'[1].op = "getregs"
          /\ ops'[2].op = "cont"
          /\ ops'[2].rip = procs[inferior].rip
          /\ ops'[2].mem = procs[inferior].mem]_vars

\* C25: whenever continue_exec has run, in run or in continue, every entry
\* of the breakpoint table holds a saved byte, and continue_exec did not end
\* at the lookup of a missing saved byte (its last operation is not its
\* first register read on a live target with candidate in the table).
C25_ArmedWhenContinuing ==
    (cmd \in {"run", "continue"}
       /\ \E i \in DOMAIN ops : ops[i].by = "continue_exec") =>
      /\ \A a \in DOMAIN breakpoints : breakpoints[a] /= None
      /\ ~(/\ ops[Len(ops)].by = "continue_exec"
           /\ ops[Len(ops)].op = "getregs"
           /\ ops[Len(ops)].pid \in ops[Len(ops)].live
           /\ ops[Len(ops)].rip - 1 \in DOMAIN breakpoints
           /\ breakpoints[ops[Len(ops)].rip - 1] = None)

\* a run armed two entries that had been registered with no target and then
\* ran continue_exec
C25_Witness ==
    /\ cmd = "run"
    /\ Cardinality(DOMAIN breakpoints) >= 2
    /\ Cardinality({i \in DOMAIN ops : ops[i].op = "poke"}) >= 2
    /\ \E i \in DOMAIN ops : ops[i].by = "continue_exec" /\ ops[i].op = "cont"

\* C26: when parallel_map returns, the output has the length of the input
\* and holds f(input[i]) at every index i, and every input element was
\* received by exactly one worker, once; no element is ever received twice.
C26_MapsEveryIndex ==
    /\ \A i \in DOMAIN pm.got : Len(pm.got[i]) <= 1
    /\ pm.pc = "done" =>
         /\ Len(pm.out) = Len(pm.input)
         /\ \A i \in DOMAIN pm.input : pm.out[i] = F(pm.input[i])
         /\ \A i \in DOMAIN pm.input : Len(pm.got[i]) = 1

\* C27: every call of parallel_map returns: no interleaving blocks a worker,
\* a join or the final loop over the output channel for ever.
C27_Terminates == (pm.pc /= "idle") ~> (pm.pc = "done")

\* a call with two workers returned: both left their loop, were joined, and
\* both channels are empty and without senders
C27_Witness ==
    /\ pm.pc = "done"
    /\ pm.n = 2
    /\ pm.joined = 2
    /\ \A k \in DOMAIN pm.w : pm.w[k].pc = "done"
    /\ pm.inq = <<>> /\ pm.outq = <<>>
    /\ ~pm.inSender /\ pm.outSenders = {}
    /\ Len(pm.input) = 2

\* the values of the nodes reachable from node id, in order
RECURSIVE Walk(_, _)
Walk(nodes, id) ==
    IF id = None THEN <<>>
    ELSE <<nodes[id].value>> \o Walk(nodes, nodes[id].next)

\* C28: the nodes reachable from head hold the values pushed and not yet
\* popped, the latest first; get_size is their number and is_empty holds
\* exactly when there is none; a new list is empty with size 0; pop_front
\* returns the latest value pushed and not yet popped, and on an empty list
\* it returns None and leaves the list as it was.
C28_ListIsStack ==
    /\ [](/\ Walk(ll.list.nodes, ll.list.head) = ll.abs
          /\ get_size(ll.list) = Len(Walk(ll.list.nodes, ll.list.head))
          /\ is_empty(ll.list) <=> Walk(ll.list.nodes, ll.list.head) = <<>>
          /\ ll.op = "new" => (is_empty(ll.list) /\ get_size(ll.list) = 0))
    /\ [][ll'.op = "pop" =>
            IF ll.abs = <<>>
            THEN ll'.ret = None /\ ll'.list = ll.list
            ELSE ll'.ret = Head(ll.abs) /\ ll'.abs = Tail(ll.abs)]_vars

\* a value was popped from a list of three, and the list left holds two
\* other values
C28_Witness ==
    /\ ll.op = "pop"
    /\ ll.ret = 3
    /\ ll.abs = <<1, 2>>
    /\ get_size(ll.list) = 2

\* the responses given to the read with index i
ResponsesTo(i) == {k \in DOMAIN bb.resps : bb.resps[k].req = i}

\* the handling of the read with index i is over
Handled(i) == i < Len(bb.reads) \/ bb.pc \in {"read", "closed"}

\* C29: responses and forwarded requests follow the order of the reads; a
\* read that ended with the client closing or a read error gets no response
\* and ends the loop; every other read, once handled, has exactly one
\* response: 400 or 413 for a request that failed to parse, after which the
\* loop reads on; for a request that parsed, the upstream's response, after
\* which the loop reads on, or a 502, after which the connection is closed.
\* A failed connect gives one 502 and ends the connection before any read.
C29_OneResponsePerRequest ==
    /\ \A k, l \in DOMAIN bb.resps : k < l => bb.resps[k].req < bb.resps[l].req
    /\ \A k, l \in DOMAIN bb.fwd : k < l => bb.fwd[k] < bb.fwd[l]
    /\ \A k \in DOMAIN bb.fwd : bb.reads[bb.fwd[k]] = "Ok"
    /\ ResponsesTo(0) /= {} =>
         /\ bb.pc = "closed" \/ (bb.pc = "write_client" /\ bb.after = "closed")
         /\ bb.reads = <<>>
         /\ bb.resps = << make_http_error(0, 502) >>
    /\ \A i \in DOMAIN bb.reads :
         /\ Cardinality(ResponsesTo(i)) <= 1
         /\ Handled(i) =>
              LET last == (i = Len(bb.reads))
              IN CASE bb.reads[i] \in {"IncompleteRequest(0)", "ConnectionError"} ->
                        ResponsesTo(i) = {} /\ last /\ bb.pc = "closed"
                   [] bb.reads[i] = "Ok" ->
                        \E k \in ResponsesTo(i) :
                          \/ /\ bb.resps[k] = UpstreamResponse(i)
                             /\ i \in {bb.fwd[f] : f \in DOMAIN bb.fwd}
                             /\ last => bb.pc = "read"
                          \/ /\ bb.resps[k] = make_http_error(i, 502)
                             /\ last /\ bb.pc = "closed"
                   [] OTHER ->
                        /\ \E k \in ResponsesTo(i) :
                             bb.resps[k] = make_http_error(i,
                                 IF bb.reads[i] = "RequestBodyTooLarge" THEN 413 ELSE 400)
                        /\ last => bb.pc = "read"
====
